---- MODULE Spec2Model ----
(***************************************************************************)
(* Calendar arithmetic of leapc: the floor-division primitive quo_mod      *)
(* (src/src/quo_mod.c) and the leap calendar engine (src/src/leap.c).      *)
(* Every C function is an operator computed the way the C code computes    *)
(* it; the callers of the library are the actions.                         *)
(***************************************************************************)
EXTENDS Integers, Sequences, FiniteSets, TLC

VARIABLES
  op,      \* the library function the caller is in
  arg,     \* the caller's inputs
  pc,      \* the caller's position
  year,    \* leap_off: parameter year, reassigned by the loop
  day,     \* leap_off: parameter day, reassigned by the loop
  days,    \* leap_off: local days, the length of the candidate year
  iters,   \* leap_off: executions of the loop body so far (ghost)
  absday,  \* round trip: the absolute day the caller holds
  date,    \* round trip: the civil date the caller holds
  month,   \* leap_date: local month, the candidate month of the scan
  threads, \* concurrent callers: the static tables, and each thread's call
  ret      \* the value returned to the caller

vars == <<op, arg, pc, year, day, days, iters, absday, date, month, threads,
          ret>>

(***************************************************************************)
(* Bounds of the model.                                                    *)
(***************************************************************************)
MaxX == 333
MaxY == 333
YearSpan == 2
MaxDay == 740
MaxIters == 5
MaxYear == 410
LargeSpan == 2
MaxMonth == 25

(***************************************************************************)
(* C integer arithmetic on int.                                            *)
(***************************************************************************)
\* int on a 16-bit target.
IntBitsShort == 2 * 8

IntBits == 32

INT_MAX == (2 ^ (IntBits - 2) - 1) * 2 + 1
INT_MIN == -INT_MAX - 1

Abs(n) == IF n < 0 THEN -n ELSE n

\* C99 6.5.5p6: the quotient of / is truncated toward zero.
CDiv(x, y) ==
  IF (x < 0) = (y < 0) THEN Abs(x) \div Abs(y) ELSE -(Abs(x) \div Abs(y))

\* C99 6.5.5p6: (a/b)*b + a%b == a, so % takes the sign of the numerator.
CRem(x, y) == IF x < 0 THEN -(Abs(x) % Abs(y)) ELSE (x % Abs(y))

\* Two's complement exclusive-or, bit by bit: n counts the value bits left
\* below the sign bit; \div 2 is the arithmetic shift right, so at n = 0 the
\* operands are 0 or -1, their sign bits.  Once both operands are 0 or -1
\* every bit left is a copy of the sign bit.
RECURSIVE XorBits(_, _, _)
XorBits(a, b, n) ==
  IF n = 0 \/ (a \in {0, -1} /\ b \in {0, -1})
  THEN (IF a = b THEN 0 ELSE -1)
  ELSE (((a % 2) + (b % 2)) % 2) + 2 * XorBits(a \div 2, b \div 2, n - 1)

CXor(a, b) == XorBits(a, b, IntBits - 1)

(***************************************************************************)
(* quo_mod.c                                                               *)
(***************************************************************************)
\* quo_mod with the adjustment left out: the remainder of C's % as it is.
quo_mod_truncating(x, y) ==
  LET mod == CRem(x, y)
  IN  [quo |-> CDiv(x - mod, y), mod |-> mod]

\* quo_mod adjusting every negative remainder, whatever the sign of y.
quo_mod_negative_only(x, y) ==
  LET r == CRem(x, y)
      mod == IF r < 0 THEN r + y ELSE r
  IN  [quo |-> CDiv(x - mod, y), mod |-> mod]

\* quo_mod(x, y) for the operands on which x % y is defined.
quo_mod(x, y) ==
  LET r == CRem(x, y)
      mod == IF r # 0 /\ CXor(r, y) < 0 THEN r + y ELSE r
  IN  [quo |-> CDiv(x - mod, y), mod |-> mod]

\* x % y is undefined when y is zero, and when x / y is not representable
\* (C11 6.5.5p5-6); the function makes no check before it.
quo_mod_undefined(x, y) == y = 0 \/ (x = INT_MIN /\ y = -1)

Returned(v) == [status |-> "returned", value |-> v]
Trapped == [status |-> "trapped", value |-> [quo |-> 0, mod |-> 0]]

\* What a call can do.  With undefined operands the build decides: the
\* divide instruction traps (x86 idiv), or it yields a quotient of 0 (Arm
\* sdiv) or -1 (RISC-V div) and the remainder x, and the call returns.
quo_mod_call(x, y) ==
  IF quo_mod_undefined(x, y)
  THEN {Trapped} \cup {Returned([quo |-> q, mod |-> x]) : q \in {0, -1}}
  ELSE {Returned(quo_mod(x, y))}

(***************************************************************************)
(* A caller of quo_mod, as quo_mod_test: one call on a pair of ints.       *)
(***************************************************************************)
NoRet == Returned([quo |-> 0, mod |-> 0])
NoDate == [year |-> 0, month |-> 0, day |-> 0]

\* A single caller.
NoThreads == <<>>

InitQuoMod ==
  /\ op = "quo_mod"
  /\ arg \in [x : -MaxX .. MaxX, y : -MaxY .. MaxY]
  /\ pc = "call"
  /\ year = 0 /\ day = 0 /\ days = 0 /\ iters = 0 /\ month = 0
  /\ threads = NoThreads
  /\ absday = 0 /\ date = NoDate
  /\ ret = NoRet

QuoMod ==
  /\ op = "quo_mod" /\ pc = "call"
  /\ ret' \in quo_mod_call(arg.x, arg.y)
  /\ pc' = "done"
  /\ UNCHANGED <<op, arg, year, day, days, iters, absday, date, month, threads>>

NextQuoMod == QuoMod

SpecQuoMod == InitQuoMod /\ [][NextQuoMod]_vars

(***************************************************************************)
(* leap.c                                                                  *)
(***************************************************************************)
LEAP_MCM == 693961

\* is_leap taking a year for a multiple of 100 only on a positive remainder.
is_leap_positive_remainder(y) ==
  CRem(y, 4) = 0 /\ (CRem(y, 100) > 0 \/ CRem(y, 400) = 0)

is_leap(y) == CRem(y, 4) = 0 /\ (CRem(y, 100) # 0 \/ CRem(y, 400) = 0)

leap_add(y) == IF is_leap(y) THEN 1 ELSE 0

\* leap_thru without the years divisible by 400.
leap_thru_no_400(y) ==
  LET q4 == quo_mod(y, 4).quo
      q100 == quo_mod(y, 100).quo
  IN  q4 - q100

\* leap_thru on C's truncating quotients.
leap_thru_truncating(y) == CDiv(y, 4) - CDiv(y, 100) + CDiv(y, 400)

leap_thru(y) ==
  LET q4 == quo_mod(y, 4).quo
      q100 == quo_mod(y, 100).quo
      q400 == quo_mod(y, 400).quo
  IN  q4 - q100 + q400

\* leap_day counting the leap years through the year itself.
leap_day_thru_same_year(y) == y * 365 + leap_thru(y) + 1

\* leap_day without the + 1 that anchors year 0 at day 0.
leap_day_unanchored(y) == y * 365 + leap_thru(y - 1)

leap_day(y) == y * 365 + leap_thru(y - 1) + 1

\* The loop condition letting day == days through.
leap_off_continues_inclusive(d, n) == d < 0 \/ d > n

\* The condition of leap_off's while loop.
leap_off_continues(d, n) == d < 0 \/ d >= n

\* The loop body rebasing by whole years of the current year's length.
leap_off_body_fixed_length(y, d, n) ==
  LET q == quo_mod(d, n).quo
  IN  [year |-> y + q, day |-> d - q * n, days |-> 365 + leap_add(y + q)]

\* The loop body jumping by C's truncating quotient.
leap_off_body_truncating(y, d, n) ==
  LET year0 == y + CDiv(d, n)
  IN  [year |-> year0,
       day |-> d + (leap_day(y) - leap_day(year0)),
       days |-> 365 + leap_add(year0)]

\* The loop body jumping by the quotient rounded up.
leap_off_body_rounding_up(y, d, n) ==
  LET year0 == y - quo_mod(-d, n).quo
  IN  [year |-> year0,
       day |-> d + (leap_day(y) - leap_day(year0)),
       days |-> 365 + leap_add(year0)]

\* The loop body rebasing with the two absolute days exchanged.
leap_off_body_rebase_reversed(y, d, n) ==
  LET year0 == y + quo_mod(d, n).quo
  IN  [year |-> year0,
       day |-> d + (leap_day(year0) - leap_day(y)),
       days |-> 365 + leap_add(year0)]

\* The loop body jumping by the mod member of the pair quo_mod returns.
leap_off_body_jump_by_mod(y, d, n) ==
  LET year0 == y + quo_mod(d, n).mod
  IN  [year |-> year0,
       day |-> d + (leap_day(y) - leap_day(year0)),
       days |-> 365 + leap_add(year0)]

\* The loop body recomputing days as the leap day alone.
leap_off_body_days_without_365(y, d, n) ==
  LET year0 == y + quo_mod(d, n).quo
  IN  [year |-> year0,
       day |-> d + (leap_day(y) - leap_day(year0)),
       days |-> leap_add(year0)]

\* One execution of the body of leap_off's while loop.
leap_off_body(y, d, n) ==
  LET year0 == y + quo_mod(d, n).quo
  IN  [year |-> year0,
       day |-> d + (leap_day(y) - leap_day(year0)),
       days |-> 365 + leap_add(year0)]

\* leap_off as its callers in leap.c see it: the loop run to its exit.
RECURSIVE leap_off_loop(_, _, _)
leap_off_loop(y, d, n) ==
  IF leap_off_continues(d, n)
  THEN LET s == leap_off_body(y, d, n) IN leap_off_loop(s.year, s.day, s.days)
  ELSE [year |-> y, day |-> d]

\* The divisors leap.c passes to quo_mod as literals: in leap_thru, and in
\* leap_mday, leap_yday and leap_from.
LiteralDivisors == {4, 100, 400} \cup {12}

\* leap_off returning its arguments as they are.
leap_off_unnormalised(y, d) == [year |-> y, day |-> d]

leap_off(y, d) == leap_off_loop(y, d, 365 + leap_add(y))

MDAY == <<31, 28, 31, 30, 31, 30, 31, 31, 30, 31, 30, 31>>

\* leap_mday without the leap day of February.
leap_mday_no_leap(y, m) ==
  LET qm == quo_mod(m - 1, 12)
  IN  MDAY[qm.mod + 1]

\* leap_mday testing the month's zero-based index against 2.
leap_mday_zero_based_february(y, m) ==
  LET qm == quo_mod(m - 1, 12)
  IN  MDAY[qm.mod + 1] + (IF m = 3 THEN leap_add(y + qm.quo) ELSE 0)

leap_mday(y, m) ==
  LET qm == quo_mod(m - 1, 12)
  IN  MDAY[qm.mod + 1] + (IF m = 2 THEN leap_add(y + qm.quo) ELSE 0)

YDAY == <<0, 31, 59, 90, 120, 151, 181, 212, 243, 273, 304, 334>>

\* leap_yday adding the leap day from February on.
leap_yday_from_february(y, m) ==
  LET qm == quo_mod(m - 1, 12)
  IN  YDAY[qm.mod + 1] + (IF m >= 2 THEN leap_add(y + qm.quo) ELSE 0)

leap_yday(y, m) ==
  LET qm == quo_mod(m - 1, 12)
  IN  YDAY[qm.mod + 1] + (IF m > 2 THEN leap_add(y + qm.quo) ELSE 0)

\* The month scan of leap_date from month m on, d days of year y left.
RECURSIVE leap_date_scan(_, _, _)
leap_date_scan(y, m, d) ==
  IF m <= 12
  THEN LET mday == leap_mday(y, m)
       IN  IF d < mday
           THEN [year |-> y, month |-> m, day |-> d + 1]
           ELSE leap_date_scan(y, m + 1, d - mday)
  ELSE [year |-> y, month |-> m, day |-> d + 1]

leap_date(y, d) ==
  LET off == leap_off(y, d)
  IN  leap_date_scan(off.year, 1, off.day)

\* leap_from taking the day of the month as zero-based.
leap_from_zero_based(y, m, d) ==
  LET qm == quo_mod(m - 1, 12)
      y1 == y + qm.quo
  IN  leap_off(y1, leap_yday(y1, qm.mod + 1) + d)

\* leap_from looking up the start of the month as passed.
leap_from_raw_month(y, m, d) ==
  LET qm == quo_mod(m - 1, 12)
      y1 == y + qm.quo
  IN  leap_off(y1, leap_yday(y1, m) + d - 1)

leap_from(y, m, d) ==
  LET qm == quo_mod(m - 1, 12)
      y1 == y + qm.quo
  IN  leap_off(y1, leap_yday(y1, qm.mod + 1) + d - 1)

leap_date_from_off(off) == leap_date(off.year, off.day)

\* leap_absdate counting from the first day of 1970.
leap_absdate_unix_epoch(d) == leap_date(1970, d)

leap_absdate(d) == leap_date(0, d)

\* leap_absfrom counting from the year as passed.
leap_absfrom_unrolled_year(y, m, d) ==
  LET off == leap_from(y, m, d)
  IN  leap_day(y) + off.day

leap_absfrom(y, m, d) ==
  LET off == leap_from(y, m, d)
  IN  leap_day(off.year) + off.day

(***************************************************************************)
(* A caller of leap_off, as leap_off_test; the loop is taken one           *)
(* execution of its body at a time.                                        *)
(***************************************************************************)
YearBases == {0, 1900, 2024}

OffYears == {b + k : b \in YearBases, k \in -YearSpan .. YearSpan}

\* The arguments leap_off_test passes.
TestOffArgs ==
  { <<1, -1>>, <<1, 0>>, <<5, -1>>, <<4, 366>>, <<2024, 365>>, <<2024, 366>>,
    <<1900, 1000>>, <<0, LEAP_MCM>>, <<0, leap_day(1970)>>,
    <<1970, -leap_day(1960)>> }

\* Offsets of hundreds of thousands of days, either side of the smallest
\* magnitude at which a third execution of the body is needed.
LargeOffArgs ==
  {104, 1970} \X { s * (176777 + k) : s \in {-1, 1}, k \in -LargeSpan .. LargeSpan }

\* Offsets either side of the smallest magnitude at which the first jump
\* lands two years from the year returned.
JumpOffArgs ==
  {104} \X { s * (176412 + k) : s \in {-1, 1}, k \in -LargeSpan .. LargeSpan }

OffArgs ==
  (OffYears \X (-MaxDay .. MaxDay)) \cup TestOffArgs \cup LargeOffArgs
    \cup JumpOffArgs

InitOff ==
  /\ op = "leap_off"
  /\ \E a \in OffArgs : arg = [year |-> a[1], day |-> a[2]]
  /\ pc = "call"
  /\ year = 0 /\ day = 0 /\ days = 0 /\ iters = 0 /\ month = 0
  /\ threads = NoThreads
  /\ absday = 0 /\ date = NoDate
  /\ ret = Returned([year |-> 0, day |-> 0])

LeapOffEnter ==
  /\ op = "leap_off" /\ pc = "call"
  /\ year' = arg.year
  /\ day' = arg.day
  /\ days' = 365 + leap_add(arg.year)
  /\ pc' = "loop"
  /\ UNCHANGED <<op, arg, iters, absday, date, ret, month, threads>>

LeapOffIter ==
  /\ op = "leap_off" /\ pc = "loop"
  /\ leap_off_continues(day, days)
  /\ iters < MaxIters
  /\ LET s == leap_off_body(year, day, days)
     IN  year' = s.year /\ day' = s.day /\ days' = s.days
  /\ iters' = iters + 1
  /\ UNCHANGED <<op, arg, pc, absday, date, ret, month, threads>>

LeapOffReturn ==
  /\ op = "leap_off" /\ pc = "loop"
  /\ ~leap_off_continues(day, days)
  /\ ret' = Returned([year |-> year, day |-> day])
  /\ pc' = "done"
  /\ UNCHANGED <<op, arg, year, day, days, iters, absday, date, month, threads>>

NextOff == LeapOffEnter \/ LeapOffIter \/ LeapOffReturn

SpecOff == InitOff /\ [][NextOff]_vars

MaxTermDay == 2

\* Offsets around the ends of a year, of the year after and of the year
\* before, with the arguments of the tests and the large offsets.
TermArgs ==
  ({2023, 2024, 2025} \X
     { e + k : e \in {-366, 0, 366, 731}, k \in -MaxTermDay .. MaxTermDay })
    \cup TestOffArgs \cup LargeOffArgs

InitTerm ==
  /\ op = "leap_off"
  /\ \E a \in TermArgs : arg = [year |-> a[1], day |-> a[2]]
  /\ pc = "call"
  /\ year = 0 /\ day = 0 /\ days = 0 /\ iters = 0 /\ month = 0
  /\ threads = NoThreads
  /\ absday = 0 /\ date = NoDate
  /\ ret = Returned([year |-> 0, day |-> 0])

\* leap_off runs on its caller's thread: a body or a return that can be
\* taken is taken.
SpecOffFair == InitTerm /\ [][NextOff]_vars /\ WF_vars(NextOff)

(***************************************************************************)
(* A caller of leap_day, as diff_days called from leap_day_test: the       *)
(* absolute days of 1 January of year0 and of year0 + span.                *)
(***************************************************************************)
TestYearFirst == 1970
TestYearEnd == 2025
TestSpanEnd == 50

DayYears ==
  (-MaxYear .. MaxYear) \cup (TestYearFirst .. TestYearEnd - 1) \cup {1900}

DayArgs ==
  (DayYears \X (1 .. TestSpanEnd - 1)) \cup {<<1900, 70>>}

InitDay ==
  /\ op = "leap_day"
  /\ \E a \in DayArgs : arg = [year0 |-> a[1], span |-> a[2]]
  /\ pc = "call"
  /\ year = 0 /\ day = 0 /\ days = 0 /\ iters = 0 /\ month = 0
  /\ threads = NoThreads
  /\ absday = 0 /\ date = NoDate
  /\ ret = Returned([day0 |-> 0, day1 |-> 0])

LeapDay ==
  /\ op = "leap_day" /\ pc = "call"
  /\ ret' = Returned([day0 |-> leap_day(arg.year0),
                      day1 |-> leap_day(arg.year0 + arg.span)])
  /\ pc' = "done"
  /\ UNCHANGED <<op, arg, year, day, days, iters, absday, date, month, threads>>

NextDay == LeapDay

SpecDay == InitDay /\ [][NextDay]_vars

(***************************************************************************)
(* A caller converting there and back, as leap_absdate_test: from an       *)
(* absolute day to a date and back, or from a date to an absolute day,     *)
(* plus days added by the caller, and back.                                *)
(***************************************************************************)
TripYears == OffYears \cup {TestYearFirst}

AbsDays == {leap_day(b) + k : b \in YearBases, k \in -MaxDay .. MaxDay}

\* The civil dates: month in 1..12, day in 1..leap_mday(year, month).
ValidDates ==
  {dt \in [year : TripYears, month : 1 .. 12, day : 1 .. 31] :
     dt.day <= leap_mday(dt.year, dt.month)}

InitTrip ==
  /\ op = "round_trip"
  /\ \/ /\ \E d \in AbsDays : arg = [from |-> "abs", abs |-> d, date |-> NoDate, plus |-> 0]
        /\ pc = "call_absdate"
     \/ /\ \E dt \in ValidDates, k \in {0, 1} :
             /\ k = 1 => dt.day = leap_mday(dt.year, dt.month)
             /\ arg = [from |-> "date", abs |-> 0, date |-> dt, plus |-> k]
        /\ pc = "call_absfrom"
  /\ absday = arg.abs
  /\ date = arg.date
  /\ year = 0 /\ day = 0 /\ days = 0 /\ iters = 0 /\ month = 0
  /\ threads = NoThreads
  /\ ret = Returned(0)

\* date = leap_absdate(absday + plus)
AbsDate ==
  /\ op = "round_trip" /\ pc = "call_absdate"
  /\ date' = leap_absdate(absday + arg.plus)
  /\ pc' = IF arg.from = "abs" THEN "call_absfrom" ELSE "done"
  /\ UNCHANGED <<op, arg, year, day, days, iters, absday, ret, month, threads>>

\* absday = leap_absfrom(date.year, date.month, date.day)
AbsFrom ==
  /\ op = "round_trip" /\ pc = "call_absfrom"
  /\ absday' = leap_absfrom(date.year, date.month, date.day)
  /\ pc' = IF arg.from = "date" THEN "call_absdate" ELSE "done"
  /\ UNCHANGED <<op, arg, year, day, days, iters, date, ret, month, threads>>

NextTrip == AbsDate \/ AbsFrom

SpecTrip == InitTrip /\ [][NextTrip]_vars

(***************************************************************************)
(* A caller of is_leap and of leap_thru, as leap_thru_test: one call on a  *)
(* year.                                                                   *)
(***************************************************************************)
LeapYears == (-MaxYear .. MaxYear) \cup {1900}

InitLeap ==
  /\ op \in {"is_leap", "leap_thru"}
  /\ \E y \in LeapYears : arg = [year |-> y]
  /\ pc = "call"
  /\ year = 0 /\ day = 0 /\ days = 0 /\ iters = 0 /\ month = 0
  /\ threads = NoThreads
  /\ absday = 0 /\ date = NoDate
  /\ ret = IF op = "is_leap" THEN Returned(FALSE) ELSE Returned(0)

IsLeap ==
  /\ op = "is_leap" /\ pc = "call"
  /\ ret' = Returned(is_leap(arg.year))
  /\ pc' = "done"
  /\ UNCHANGED <<op, arg, year, day, days, iters, absday, date, month, threads>>

LeapThru ==
  /\ op = "leap_thru" /\ pc = "call"
  /\ ret' = Returned(leap_thru(arg.year))
  /\ pc' = "done"
  /\ UNCHANGED <<op, arg, year, day, days, iters, absday, date, month, threads>>

NextLeap == IsLeap \/ LeapThru

SpecLeap == InitLeap /\ [][NextLeap]_vars

(***************************************************************************)
(* A caller of leap_mday and of leap_yday: one call on a year and a month, *)
(* the month any int.                                                      *)
(***************************************************************************)
InitMonth ==
  /\ op \in {"leap_mday", "leap_yday"}
  /\ arg \in [year : OffYears, month : -MaxMonth .. MaxMonth]
  /\ pc = "call"
  /\ year = 0 /\ day = 0 /\ days = 0 /\ iters = 0 /\ month = 0
  /\ threads = NoThreads
  /\ absday = 0 /\ date = NoDate
  /\ ret = Returned(0)

LeapMday ==
  /\ op = "leap_mday" /\ pc = "call"
  /\ ret' = Returned(leap_mday(arg.year, arg.month))
  /\ pc' = "done"
  /\ UNCHANGED <<op, arg, year, day, days, iters, absday, date, month, threads>>

LeapYday ==
  /\ op = "leap_yday" /\ pc = "call"
  /\ ret' = Returned(leap_yday(arg.year, arg.month))
  /\ pc' = "done"
  /\ UNCHANGED <<op, arg, year, day, days, iters, absday, date, month, threads>>

NextMonth == LeapMday \/ LeapYday

SpecMonth == InitMonth /\ [][NextMonth]_vars

(***************************************************************************)
(* A caller of leap_date, as leap_date_test; the month scan is taken one   *)
(* execution of its body at a time.                                        *)
(***************************************************************************)
\* The arguments leap_date_test and leap_off_test pass on to leap_date.
TestDateArgs ==
  { <<1902, 270>>, <<1, 0>>, <<1, 365>>, <<1900, 364>>, <<1, -1>>,
    <<2024, 365>>, <<2024, 366>>, <<0, LEAP_MCM>> }

DateArgs == (YearBases \X (-MaxDay .. MaxDay)) \cup TestDateArgs

InitDate ==
  /\ op = "leap_date"
  /\ \E a \in DateArgs : arg = [year |-> a[1], day |-> a[2]]
  /\ pc = "call"
  /\ year = 0 /\ day = 0 /\ days = 0 /\ iters = 0 /\ month = 0
  /\ threads = NoThreads
  /\ absday = 0 /\ date = NoDate
  /\ ret = NoDate

\* struct leap_off off = leap_off(year, day); int month = 1;
LeapDateEnter ==
  /\ op = "leap_date" /\ pc = "call"
  /\ LET off == leap_off(arg.year, arg.day)
     IN  /\ year' = off.year
         /\ day' = off.day
  /\ month' = 1
  /\ iters' = 0
  /\ pc' = "scan"
  /\ UNCHANGED <<op, arg, days, absday, date, ret, threads>>

\* One execution of the body that does not break: off.day -= mday; ++month.
LeapDateScan ==
  /\ op = "leap_date" /\ pc = "scan"
  /\ month <= 12
  /\ day >= leap_mday(year, month)
  /\ day' = day - leap_mday(year, month)
  /\ month' = month + 1
  /\ iters' = iters + 1
  /\ UNCHANGED <<op, arg, pc, year, days, absday, date, ret, threads>>

\* The break, or the loop condition failing, and the return.
LeapDateReturn ==
  /\ op = "leap_date" /\ pc = "scan"
  /\ month > 12 \/ day < leap_mday(year, month)
  /\ ret' = [year |-> year, month |-> month, day |-> day + 1]
  /\ pc' = "done"
  /\ UNCHANGED <<op, arg, year, day, days, iters, absday, date, month, threads>>

NextDate == LeapDateEnter \/ LeapDateScan \/ LeapDateReturn

SpecDate == InitDate /\ [][NextDate]_vars

(***************************************************************************)
(* A caller of leap_from that converts the offset back to a date, as       *)
(* leap_from_test.                                                         *)
(***************************************************************************)
MaxDom == 40

FromYears == YearBases \cup {2023}

InitFrom ==
  /\ op = "leap_from"
  /\ arg \in [year : FromYears, month : -MaxMonth .. MaxMonth,
              day : -MaxDom .. MaxDom]
  /\ pc = "call"
  /\ year = 0 /\ day = 0 /\ days = 0 /\ iters = 0 /\ month = 0
  /\ threads = NoThreads
  /\ absday = 0 /\ date = NoDate
  /\ ret = [year |-> 0, day |-> 0]

\* ret = leap_from(year, month, day)
LeapFrom ==
  /\ op = "leap_from" /\ pc = "call"
  /\ ret' = leap_from(arg.year, arg.month, arg.day)
  /\ pc' = "from"
  /\ UNCHANGED <<op, arg, year, day, days, iters, absday, date, month, threads>>

\* date = leap_date_from_off(ret)
LeapDateFromOff ==
  /\ op = "leap_from" /\ pc = "from"
  /\ date' = leap_date_from_off(ret)
  /\ pc' = "done"
  /\ UNCHANGED <<op, arg, year, day, days, iters, absday, month, ret, threads>>

NextFrom == LeapFrom \/ LeapDateFromOff

SpecFrom == InitFrom /\ [][NextFrom]_vars

(***************************************************************************)
(* A caller that takes the absolute day of (year, month, day) and of       *)
(* (year, month, day + k), and converts the second back to a date.         *)
(***************************************************************************)
MaxRoll == 3

RollMonths == -1 .. 14

Rolls == (-MaxRoll .. MaxRoll) \cup {-366, -31, 31, 366}

InitRoll ==
  /\ op = "leap_absfrom"
  /\ arg \in [year : YearBases, month : RollMonths,
              day : -MaxDom .. MaxDom, k : Rolls]
  /\ pc = "call"
  /\ year = 0 /\ day = 0 /\ days = 0 /\ iters = 0 /\ month = 0
  /\ threads = NoThreads
  /\ absday = 0 /\ date = NoDate
  /\ ret = Returned(0)

\* absday = leap_absfrom(year, month, day); ret = leap_absfrom(year, month, day + k)
LeapAbsFrom ==
  /\ op = "leap_absfrom" /\ pc = "call"
  /\ absday' = leap_absfrom(arg.year, arg.month, arg.day)
  /\ ret' = Returned(leap_absfrom(arg.year, arg.month, arg.day + arg.k))
  /\ pc' = "from"
  /\ UNCHANGED <<op, arg, year, day, days, iters, date, month, threads>>

\* date = leap_absdate(ret)
LeapAbsDate ==
  /\ op = "leap_absfrom" /\ pc = "from"
  /\ date' = leap_absdate(ret.value)
  /\ pc' = "done"
  /\ UNCHANGED <<op, arg, year, day, days, iters, absday, month, ret, threads>>

NextRoll == LeapAbsFrom \/ LeapAbsDate

SpecRoll == InitRoll /\ [][NextRoll]_vars

(***************************************************************************)
(* The calendar functions in int arithmetic.  Signed overflow is undefined *)
(* (C11 6.5p5): a call in which an intermediate value does not fit either  *)
(* traps (-ftrapv) or goes on with a wrapped value.                        *)
(***************************************************************************)
\* a + b, a - b and a * b (b > 0) are representable in int.
AddFits(a, b) == IF b >= 0 THEN a <= INT_MAX - b ELSE a >= INT_MIN - b

SubFits(a, b) == IF b >= 0 THEN a >= INT_MIN + b ELSE a <= INT_MAX + b

MulFits(a, b) == a <= INT_MAX \div b /\ a >= (INT_MIN + (b - 1)) \div b

\* year * 365 + leap_thru(year - 1) + 1
leap_day_fits(y) ==
  /\ MulFits(y, 365)
  /\ SubFits(y, 1)
  /\ AddFits(y * 365, leap_thru(y - 1))
  /\ AddFits(y * 365 + leap_thru(y - 1), 1)

\* year + quo_mod(day, days).quo, leap_day(year) - leap_day(year0) and
\* day += ..., in every execution of the loop body.
RECURSIVE leap_off_fits(_, _, _)
leap_off_fits(y, d, n) ==
  IF leap_off_continues(d, n)
  THEN LET q == quo_mod(d, n).quo
       IN  /\ AddFits(y, q)
           /\ leap_day_fits(y)
           /\ leap_day_fits(y + q)
           /\ SubFits(leap_day(y), leap_day(y + q))
           /\ AddFits(d, leap_day(y) - leap_day(y + q))
           /\ LET s == leap_off_body(y, d, n)
              IN  leap_off_fits(s.year, s.day, s.days)
  ELSE TRUE

\* month - 1, year += qm.quo, leap_yday(...) + day - 1, and leap_off.
leap_from_fits(y, m, d) ==
  /\ SubFits(m, 1)
  /\ LET qm == quo_mod(m - 1, 12)
     IN  /\ AddFits(y, qm.quo)
         /\ LET y1 == y + qm.quo
                yday == leap_yday(y1, qm.mod + 1)
            IN  /\ AddFits(yday, d)
                /\ SubFits(yday + d, 1)
                /\ leap_off_fits(y1, yday + d - 1, 365 + leap_add(y1))

\* leap_from, and leap_day(off.year) + off.day.
leap_absfrom_fits(y, m, d) ==
  /\ leap_from_fits(y, m, d)
  /\ LET off == leap_from(y, m, d)
     IN  /\ leap_day_fits(off.year)
         /\ AddFits(leap_day(off.year), off.day)

Overflowed == {[status |-> "trapped"], [status |-> "wrapped"]}

MaxEdge == 4

\* 27379 is the last year that starts within 10,000,000 days of day 0;
\* 5879620 is the first year whose leap_day does not fit in 32 bits.
WidthYears == {0, 1970, -27379, 27379, -5000000, 5000000}

AbsSamples ==
  { s * (10000000 - k) : s \in {-1, 1}, k \in 0 .. MaxEdge }
    \cup (-MaxEdge .. MaxEdge)

WidthOffArgs ==
  { <<y, a - leap_day(y)>> : y \in WidthYears, a \in AbsSamples }
    \cup { <<5879620, k - 2147480000>> : k \in 0 .. MaxEdge }

WidthDates ==
  [year : {-27379, 0, 1970, 27378}, month : {1, 2, 12}, day : {1, 28, 31}]

InitWidth ==
  /\ \/ /\ op = "leap_day"
        /\ \E y \in WidthYears : Abs(y) <= 27379 /\ arg = [year |-> y]
     \/ /\ op \in {"leap_off", "leap_date"}
        /\ \E a \in WidthOffArgs : arg = [year |-> a[1], day |-> a[2]]
     \/ /\ op = "leap_absfrom"
        /\ arg \in WidthDates
  /\ pc = "call32"
  /\ year = 0 /\ day = 0 /\ days = 0 /\ iters = 0 /\ month = 0
  /\ threads = NoThreads
  /\ absday = 0 /\ date = NoDate
  /\ ret = Returned(0)

\* What the call returns when every intermediate value fits.
Call32Value ==
  CASE op = "leap_day" -> leap_day(arg.year)
    [] op = "leap_off" -> leap_off(arg.year, arg.day)
    [] op = "leap_date" -> leap_date(arg.year, arg.day)
    [] op = "leap_absfrom" -> leap_absfrom(arg.year, arg.month, arg.day)

Call32Fits ==
  CASE op = "leap_day" -> leap_day_fits(arg.year)
    [] op \in {"leap_off", "leap_date"} ->
         leap_off_fits(arg.year, arg.day, 365 + leap_add(arg.year))
    [] op = "leap_absfrom" -> leap_absfrom_fits(arg.year, arg.month, arg.day)

\* A call all of whose intermediate values fit.
Call32Returns ==
  /\ pc = "call32"
  /\ Call32Fits
  /\ ret' = Returned(Call32Value)
  /\ pc' = "done"
  /\ UNCHANGED <<op, arg, year, day, days, iters, absday, date, month, threads>>

\* A call in which an intermediate value does not fit.
Call32Overflows ==
  /\ pc = "call32"
  /\ ~Call32Fits
  /\ ret' \in Overflowed
  /\ pc' = "undefined"
  /\ UNCHANGED <<op, arg, year, day, days, iters, absday, date, month, threads>>

NextWidth == Call32Returns \/ Call32Overflows

SpecWidth == InitWidth /\ [][NextWidth]_vars

(***************************************************************************)
(* quo_mod in the arithmetic of a machine word.  The word is kept short so *)
(* that every pair of operands is tried; the steps are those of quo_mod.c. *)
(***************************************************************************)
WordBits == 6

WORD_MAX == 2 ^ (WordBits - 1) - 1

WORD_MIN == -WORD_MAX - 1

InWord(v) == WORD_MIN <= v /\ v <= WORD_MAX

\* x % y, mod += y, x - mod and (x - mod) / y are all representable.
quo_mod_fits(x, y) ==
  /\ y # 0
  /\ ~(x = WORD_MIN /\ y = -1)
  /\ LET r == CRem(x, y)
         adjusts == r # 0 /\ CXor(r, y) < 0
         mod == IF adjusts THEN r + y ELSE r
     IN  /\ adjusts => InWord(r + y)
         /\ InWord(x - mod)
         /\ InWord(CDiv(x - mod, y))

InitWord ==
  /\ op = "quo_mod"
  /\ arg \in [x : WORD_MIN .. WORD_MAX, y : (WORD_MIN .. WORD_MAX) \ {0}]
  /\ pc = "call_word"
  /\ year = 0 /\ day = 0 /\ days = 0 /\ iters = 0 /\ month = 0
  /\ threads = NoThreads
  /\ absday = 0 /\ date = NoDate
  /\ ret = NoRet

\* A call all of whose intermediate values fit.
QuoModWordReturns ==
  /\ op = "quo_mod" /\ pc = "call_word"
  /\ quo_mod_fits(arg.x, arg.y)
  /\ ret' = Returned(quo_mod(arg.x, arg.y))
  /\ pc' = "done"
  /\ UNCHANGED <<op, arg, year, day, days, iters, absday, date, month, threads>>

\* A call in which an intermediate value does not fit.
QuoModWordOverflows ==
  /\ op = "quo_mod" /\ pc = "call_word"
  /\ ~quo_mod_fits(arg.x, arg.y)
  /\ ret' \in Overflowed
  /\ pc' = "undefined"
  /\ UNCHANGED <<op, arg, year, day, days, iters, absday, date, month, threads>>

NextWord == QuoModWordReturns \/ QuoModWordOverflows

SpecWord == InitWord /\ [][NextWord]_vars

(***************************************************************************)
(* Concurrent callers.  The tables MDAY and YDAY have static storage and   *)
(* are shared; the parameters and locals of a call have automatic storage, *)
(* one frame per thread.  The loops of leap_off and leap_date are taken    *)
(* one execution of the body at a time, interleaved with the other thread. *)
(***************************************************************************)
NumThreads == 2

Threads == 1 .. NumThreads

StaticTables == [MDAY |-> MDAY, YDAY |-> YDAY]

\* leap_mday and leap_yday reading the tables in memory.
leap_mday_in(tb, y, m) ==
  LET qm == quo_mod(m - 1, 12)
  IN  tb.MDAY[qm.mod + 1] + (IF m = 2 THEN leap_add(y + qm.quo) ELSE 0)

leap_yday_in(tb, y, m) ==
  LET qm == quo_mod(m - 1, 12)
  IN  tb.YDAY[qm.mod + 1] + (IF m > 2 THEN leap_add(y + qm.quo) ELSE 0)

\* The locals of every call in one object of static storage.
local_frame_static(t) == 1

\* The frame that holds the locals of thread t's call.
local_frame(t) == t

NoFrame == [year |-> 0, day |-> 0, days |-> 0, month |-> 0]

\* The calls a thread makes: function and arguments.
ThreadCalls ==
  { <<"quo_mod", -7, 3, 0>>, <<"leap_off", 2024, 731, 0>>,
    <<"leap_mday", 2024, 2, 0>>, <<"leap_yday", 2024, 3, 0>>,
    <<"leap_date", 2024, 59, 0>>, <<"leap_date", 2023, 59, 0>>,
    <<"leap_from", 2024, 3, 1>>, <<"leap_absdate", 59, 0, 0>>,
    <<"leap_absfrom", 2024, 3, 1>> }

\* What the call returns to a single caller.
CallValue(c) ==
  CASE c.op = "quo_mod" -> quo_mod(c.a, c.b)
    [] c.op = "leap_off" -> leap_off(c.a, c.b)
    [] c.op = "leap_mday" -> leap_mday(c.a, c.b)
    [] c.op = "leap_yday" -> leap_yday(c.a, c.b)
    [] c.op = "leap_date" -> leap_date(c.a, c.b)
    [] c.op = "leap_from" -> leap_from(c.a, c.b, c.c)
    [] c.op = "leap_absdate" -> leap_absdate(c.a)
    [] c.op = "leap_absfrom" -> leap_absfrom(c.a, c.b, c.c)

InitThreads ==
  /\ op = "threads"
  /\ arg = <<>>
  /\ pc = "run"
  /\ year = 0 /\ day = 0 /\ days = 0 /\ iters = 0 /\ month = 0
  /\ absday = 0 /\ date = NoDate
  /\ ret = NoRet
  /\ \E cs \in [Threads -> ThreadCalls] :
       threads =
         [tables |-> StaticTables,
          frame |-> [t \in Threads |-> NoFrame],
          call |-> [t \in Threads |->
                      [op |-> cs[t][1], a |-> cs[t][2], b |-> cs[t][3],
                       c |-> cs[t][4], pc |-> "call", ret |-> 0]]]

\* Thread t's call and frame become c and f; nothing else is written.
ThreadWrites(t, c, f) ==
  /\ threads' = [threads EXCEPT !.call[t] = c, !.frame[local_frame(t)] = f]
  /\ UNCHANGED <<op, arg, pc, year, day, days, iters, absday, date, month, ret>>

\* quo_mod, leap_from, leap_absfrom: arithmetic on the arguments.
ThreadCall(t) ==
  LET c == threads.call[t]
  IN  /\ c.pc = "call"
      /\ c.op \in {"quo_mod", "leap_from", "leap_absfrom"}
      /\ ThreadWrites(t, [c EXCEPT !.pc = "done", !.ret = CallValue(c)],
                      threads.frame[local_frame(t)])

\* leap_mday, leap_yday: one read of a table.
ThreadTableRead(t) ==
  LET c == threads.call[t]
  IN  /\ c.pc = "call"
      /\ c.op \in {"leap_mday", "leap_yday"}
      /\ ThreadWrites(t,
           [c EXCEPT !.pc = "done",
                     !.ret = IF c.op = "leap_mday"
                             THEN leap_mday_in(threads.tables, c.a, c.b)
                             ELSE leap_yday_in(threads.tables, c.a, c.b)],
           threads.frame[local_frame(t)])

\* leap_off: int days = 365 + leap_add(year);
ThreadOffEnter(t) ==
  LET c == threads.call[t]
  IN  /\ c.pc = "call"
      /\ c.op = "leap_off"
      /\ ThreadWrites(t, [c EXCEPT !.pc = "loop"],
           [threads.frame[local_frame(t)] EXCEPT
              !.year = c.a, !.day = c.b, !.days = 365 + leap_add(c.a)])

\* leap_off: one execution of the loop body.
ThreadOffIter(t) ==
  LET c == threads.call[t]
      f == threads.frame[local_frame(t)]
  IN  /\ c.pc = "loop"
      /\ leap_off_continues(f.day, f.days)
      /\ LET s == leap_off_body(f.year, f.day, f.days)
         IN  ThreadWrites(t, c,
               [f EXCEPT !.year = s.year, !.day = s.day, !.days = s.days])

\* leap_off: the loop condition fails, return.
ThreadOffReturn(t) ==
  LET c == threads.call[t]
      f == threads.frame[local_frame(t)]
  IN  /\ c.pc = "loop"
      /\ ~leap_off_continues(f.day, f.days)
      /\ ThreadWrites(t,
           [c EXCEPT !.pc = "done", !.ret = [year |-> f.year, day |-> f.day]],
           f)

\* leap_date (leap_absdate from year 0): off = leap_off(year, day); month = 1;
ThreadDateEnter(t) ==
  LET c == threads.call[t]
      off == IF c.op = "leap_date" THEN leap_off(c.a, c.b) ELSE leap_off(0, c.a)
  IN  /\ c.pc = "call"
      /\ c.op \in {"leap_date", "leap_absdate"}
      /\ ThreadWrites(t, [c EXCEPT !.pc = "scan"],
           [threads.frame[local_frame(t)] EXCEPT
              !.year = off.year, !.day = off.day, !.month = 1])

\* leap_date: one execution of the scan's body that does not break.
ThreadDateScan(t) ==
  LET c == threads.call[t]
      f == threads.frame[local_frame(t)]
  IN  /\ c.pc = "scan"
      /\ f.month <= 12
      /\ f.day >= leap_mday_in(threads.tables, f.year, f.month)
      /\ ThreadWrites(t, c,
           [f EXCEPT !.day = f.day - leap_mday_in(threads.tables, f.year, f.month),
                     !.month = f.month + 1])

\* leap_date: the break, or the loop condition failing, and the return.
ThreadDateReturn(t) ==
  LET c == threads.call[t]
      f == threads.frame[local_frame(t)]
  IN  /\ c.pc = "scan"
      /\ f.month > 12 \/ f.day < leap_mday_in(threads.tables, f.year, f.month)
      /\ ThreadWrites(t,
           [c EXCEPT !.pc = "done",
                     !.ret = [year |-> f.year, month |-> f.month,
                              day |-> f.day + 1]],
           f)

NextThreads ==
  \E t \in Threads :
    \/ ThreadCall(t)
    \/ ThreadTableRead(t)
    \/ ThreadOffEnter(t)
    \/ ThreadOffIter(t)
    \/ ThreadOffReturn(t)
    \/ ThreadDateEnter(t)
    \/ ThreadDateScan(t)
    \/ ThreadDateReturn(t)

SpecThreads == InitThreads /\ [][NextThreads]_vars

(***************************************************************************)
(* The library under any of its callers.                                   *)
(***************************************************************************)
Init == InitQuoMod \/ InitOff \/ InitDay \/ InitTrip \/ InitLeap
  \/ InitMonth \/ InitDate \/ InitFrom \/ InitRoll
  \/ InitTerm \/ InitWidth \/ InitWord \/ InitThreads

Next == NextQuoMod \/ NextOff \/ NextDay \/ NextTrip \/ NextLeap
  \/ NextMonth \/ NextDate \/ NextFrom \/ NextRoll
  \/ NextWidth \/ NextWord \/ NextThreads

Spec == Init /\ [][Next]_vars

(***************************************************************************)
(* Properties of quo_mod.                                                  *)
(***************************************************************************)
\* C3: for every x and nonzero y, quo_mod(x, y) returns (quo, mod) with
\* x == y*quo + mod, and 0 <= mod < y when y > 0, y < mod <= 0 when y < 0.
C3_QuoModContract ==
  (op = "quo_mod" /\ pc = "done" /\ arg.y # 0) =>
    /\ ret.status = "returned"
    /\ arg.x = arg.y * ret.value.quo + ret.value.mod
    /\ (arg.y > 0 => 0 <= ret.value.mod /\ ret.value.mod < arg.y)
    /\ (arg.y < 0 => arg.y < ret.value.mod /\ ret.value.mod <= 0)

\* A negative numerator over a positive divisor, the remainder adjusted.
C3_Witness ==
  /\ op = "quo_mod" /\ pc = "done"
  /\ arg.x = -7 /\ arg.y = 3
  /\ ret = Returned([quo |-> -3, mod |-> 2])

\* The exact quotient x/y rounded toward minus infinity.
FloorDiv(x, y) == IF y > 0 THEN x \div y ELSE (-x) \div (-y)

\* C4: for every x and nonzero y, quo_mod(x, y).quo == floor(x/y) and
\* quo_mod(x, y).mod == x - floor(x/y)*y, Lua's modulo.
C4_QuoModIsFloor ==
  (op = "quo_mod" /\ pc = "done" /\ arg.y # 0) =>
    /\ ret.status = "returned"
    /\ ret.value.quo = FloorDiv(arg.x, arg.y)
    /\ ret.value.mod = arg.x - FloorDiv(arg.x, arg.y) * arg.y

\* A positive numerator over a negative divisor, the remainder adjusted.
C4_Witness ==
  /\ op = "quo_mod" /\ pc = "done"
  /\ arg.x = 7 /\ arg.y = -3
  /\ ret = Returned([quo |-> -3, mod |-> -2])

\* C5: quo_mod(x, 0) fails with a division-by-zero error for every x and never
\* returns a (quo, mod) pair.
C5_DivisionByZeroFailsFast ==
  (op = "quo_mod" /\ pc = "done" /\ arg.y = 0) => ret.status = "trapped"

(***************************************************************************)
(* Properties of leap_off.                                                 *)
(***************************************************************************)
\* C6: leap_off(year, day) returns (year', day') with
\* 0 <= day' < 365 + leap_add(year').
C6_OffInRange ==
  (op = "leap_off" /\ pc = "done") =>
    /\ 0 <= ret.value.day
    /\ ret.value.day < 365 + leap_add(ret.value.year)

\* A negative offset normalised onto the last day of a leap year.
C6_Witness ==
  /\ op = "leap_off" /\ pc = "done"
  /\ arg.day < 0
  /\ is_leap(ret.value.year) /\ ret.value.day = 365

UniqSpan == 2

\* C7: leap_day(year) + day is unchanged by every execution of the loop body,
\* so the pair returned has the absolute day of the arguments; no other
\* in-range pair has it; and the instances of the tests hold.
C7_OffPreservesAbsoluteDay ==
  LET a == leap_day(arg.year) + arg.day
      expect(y0, d0, y1, d1) ==
        (arg = [year |-> y0, day |-> d0]) =>
          ret.value = [year |-> y1, day |-> d1]
  IN  /\ (op = "leap_off" /\ pc \in {"loop", "done"}) => leap_day(year) + day = a
      /\ (op = "leap_off" /\ pc = "done") =>
           /\ leap_day(ret.value.year) + ret.value.day = a
           /\ \A y2 \in (ret.value.year - UniqSpan) .. (ret.value.year + UniqSpan) :
                LET d2 == a - leap_day(y2)
                IN  (0 <= d2 /\ d2 < 365 + leap_add(y2)) => y2 = ret.value.year
           /\ expect(1, -1, 0, 365)
           /\ expect(5, -1, 4, 365)
           /\ expect(4, 366, 5, 0)
           /\ expect(1900, 1000, 1902, 270)
           /\ expect(0, 693961, 1900, 0)

\* The offset of 1 January 1900 from year 0, normalised.
C7_Witness ==
  /\ op = "leap_off" /\ pc = "done"
  /\ arg = [year |-> 0, day |-> LEAP_MCM]
  /\ ret.value = [year |-> 1900, day |-> 0]

\* C8 as stated: the loop body of leap_off is executed at most 2 times.
C8_AtMostTwoIterations == op = "leap_off" => iters <= 2

\* C8 as amended: at most 3 times, and at most 2 times for an offset of at
\* most 176776 days either way.
C8_AtMostThreeIterations ==
  op = "leap_off" =>
    /\ iters <= 3
    /\ (Abs(arg.day) <= 176776 => iters <= 2)

\* The offset leap_off_test passes for 1900, normalised in 3 executions.
C8_Witness ==
  /\ op = "leap_off" /\ pc = "done"
  /\ arg = [year |-> 0, day |-> LEAP_MCM]
  /\ iters = 3

(***************************************************************************)
(* Properties of leap_day.                                                 *)
(***************************************************************************)
\* The length of a year of the proleptic Gregorian calendar, by divisibility.
YearLength(k) ==
  IF k % 4 = 0 /\ (k % 100 # 0 \/ k % 400 = 0) THEN 366 ELSE 365

\* The days of the n years from year k on.
RECURSIVE DaysOfYears(_, _)
DaysOfYears(k, n) == IF n = 0 THEN 0 ELSE YearLength(k) + DaysOfYears(k + 1, n - 1)

\* C9: leap_day(year + 1) - leap_day(year) == 365 + leap_add(year) for every
\* year; leap_day grows with the year, and leap_day(y1) - leap_day(y0) is the
\* sum of the lengths of the years y0 .. y1 - 1.
C9_LeapDayDifference ==
  (op = "leap_day" /\ pc = "done") =>
    /\ arg.span = 1 =>
         ret.value.day1 - ret.value.day0 = 365 + leap_add(arg.year0)
    /\ ret.value.day0 < ret.value.day1
    /\ ret.value.day1 - ret.value.day0 = DaysOfYears(arg.year0, arg.span)

\* A leap year before year 0: 366 days to the next 1 January.
C9_Witness ==
  /\ op = "leap_day" /\ pc = "done"
  /\ arg = [year0 |-> -4, span |-> 1]
  /\ ret.value.day1 - ret.value.day0 = 366

\* C10: leap_day(0) == 0, leap_day(1) == 366, leap_day(1900) == 693961, which
\* is LEAP_MCM, and leap_day(1970) - leap_day(1900) == 25567.
C10_EpochAnchor ==
  (op = "leap_day" /\ pc = "done") =>
    /\ arg.year0 = 0 => ret.value.day0 = 0
    /\ arg.year0 = 1 => ret.value.day0 = 366
    /\ arg.year0 = 1900 => ret.value.day0 = 693961 /\ ret.value.day0 = LEAP_MCM
    /\ (arg.year0 = 1900 /\ arg.span = 70) =>
         ret.value.day1 - ret.value.day0 = 25567

\* The two anchors of leap_day_test: 1900 and, 70 years on, 1970.
C10_Witness ==
  /\ op = "leap_day" /\ pc = "done"
  /\ arg = [year0 |-> 1900, span |-> 70]
  /\ ret.value = [day0 |-> LEAP_MCM, day1 |-> LEAP_MCM + 25567]

(***************************************************************************)
(* Properties of the conversions there and back.                           *)
(***************************************************************************)
\* C1: leap_absfrom applied to the year, month and day of leap_absdate(d)
\* returns d, for negative, zero and positive d.
C1_RoundTripFromDay ==
  (op = "round_trip" /\ pc = "done" /\ arg.from = "abs") => absday = arg.abs

\* The day before day 0 goes to 31 December of year -1 and back.
C1_Witness ==
  /\ op = "round_trip" /\ pc = "done" /\ arg.from = "abs"
  /\ arg.abs = -1
  /\ date = [year |-> -1, month |-> 12, day |-> 31]
  /\ absday = -1

\* The first day of the month after the month of dt.
FirstOfNextMonth(dt) ==
  IF dt.month < 12
  THEN [year |-> dt.year, month |-> dt.month + 1, day |-> 1]
  ELSE [year |-> dt.year + 1, month |-> 1, day |-> 1]

\* C2: leap_absdate(leap_absfrom(year, month, day)) returns (year, month,
\* day) for every valid civil date, and one day after the last day of a month
\* is day 1 of the following month, as 1970-01-31 plus one is 1970-02-01.
C2_RoundTripFromDate ==
  (op = "round_trip" /\ pc = "done" /\ arg.from = "date") =>
    /\ arg.plus = 0 => date = arg.date
    /\ (arg.plus = 1 /\ arg.date.day = leap_mday(arg.date.year, arg.date.month))
         => date = FirstOfNextMonth(arg.date)
    /\ (arg.plus = 1 /\ arg.date = [year |-> 1970, month |-> 1, day |-> 31])
         => date = [year |-> 1970, month |-> 2, day |-> 1]

\* One day after the leap day of 2024.
C2_Witness ==
  /\ op = "round_trip" /\ pc = "done" /\ arg.from = "date"
  /\ arg.plus = 1
  /\ arg.date = [year |-> 2024, month |-> 2, day |-> 29]
  /\ date = [year |-> 2024, month |-> 3, day |-> 1]

(***************************************************************************)
(* Properties of leap_thru and is_leap.                                    *)
(***************************************************************************)
\* The leap years among the years a .. b.
LeapYearsIn(a, b) == Cardinality({y \in a .. b : is_leap(y)})

DivisibleBy(y, n) == \E k \in -Abs(y) .. Abs(y) : y = k * n

GregorianLeap(y) ==
  DivisibleBy(y, 4) /\ (~DivisibleBy(y, 100) \/ DivisibleBy(y, 400))

\* C13: is_leap(year) is true iff year is divisible by 4 and not by 100, or
\* by 400, for zero and negative years too: is_leap(0) is true, and
\* is_leap(year) == is_leap(year + 400) == is_leap(-year).
C13_IsLeapByDivisibility ==
  (op = "is_leap" /\ pc = "done") =>
    /\ ret.value = GregorianLeap(arg.year)
    /\ arg.year = 0 => ret.value = TRUE
    /\ ret.value = is_leap(arg.year + 400)
    /\ ret.value = is_leap(-arg.year)

\* A leap year before year 0.
C13_Witness ==
  /\ op = "is_leap" /\ pc = "done"
  /\ arg.year = -4
  /\ ret.value = TRUE

(***************************************************************************)
(* Properties of leap_mday and leap_yday.                                  *)
(***************************************************************************)
\* The length of month m, 1 .. 12, of a year that is not a leap year.
MonthLength(m) ==
  IF m = 2 THEN 28 ELSE IF m \in {4, 6, 9, 11} THEN 30 ELSE 31

\* C14: for month in 1..12, leap_mday(year, 2) == 29 iff is_leap(year) and
\* 28 otherwise, and every other month has its fixed length whatever the year.
C14_MonthLength ==
  (op = "leap_mday" /\ pc = "done" /\ arg.month \in 1 .. 12) =>
    /\ arg.month = 2 => ret.value = (IF is_leap(arg.year) THEN 29 ELSE 28)
    /\ arg.month # 2 => ret.value = MonthLength(arg.month)

\* February of the leap year 2024.
C14_Witness ==
  /\ op = "leap_mday" /\ pc = "done"
  /\ arg = [year |-> 2024, month |-> 2]
  /\ ret.value = 29

\* C15: for every int month, with (q, r) = quo_mod(month - 1, 12),
\* leap_mday(year, month) == leap_mday(year + q, r + 1), the leap day added
\* exactly when month r + 1 is February and year + q is a leap year.
C15_MdayRollsMonth ==
  (op = "leap_mday" /\ pc = "done") =>
    LET qm == quo_mod(arg.month - 1, 12)
    IN  /\ ret.value = leap_mday(arg.year + qm.quo, qm.mod + 1)
        /\ ret.value = MonthLength(qm.mod + 1) +
             (IF qm.mod + 1 = 2 /\ is_leap(arg.year + qm.quo) THEN 1 ELSE 0)
        /\ arg.month = 14 => (ret.value = 29 <=> is_leap(arg.year + 1))
        /\ arg.month = -10 => (ret.value = 29 <=> is_leap(arg.year - 1))

\* The sum of leap_mday(y, k) for k in 1 .. n.
RECURSIVE MdaySum(_, _)
MdaySum(y, n) == IF n = 0 THEN 0 ELSE MdaySum(y, n - 1) + leap_mday(y, n)

\* C16: for every int month, with (q, r) = quo_mod(month - 1, 12),
\* leap_yday(year, month) == YDAY[r] + (1 if r + 1 > 2 and year + q is a leap
\* year); month 0 gives 334 + leap_add(year - 1), month 13 gives 0, and for
\* month in 1..12 it is the sum of leap_mday(year, k) for k in 1..month-1.
C16_YdayRollsMonth ==
  (op = "leap_yday" /\ pc = "done") =>
    LET qm == quo_mod(arg.month - 1, 12)
    IN  /\ ret.value = YDAY[qm.mod + 1] +
             (IF qm.mod + 1 > 2 /\ is_leap(arg.year + qm.quo) THEN 1 ELSE 0)
        /\ arg.month = 0 => ret.value = 334 + leap_add(arg.year - 1)
        /\ arg.month = 13 => ret.value = 0
        /\ arg.month \in 1 .. 12 => ret.value = MdaySum(arg.year, arg.month - 1)

(***************************************************************************)
(* C17: leap_date returns a month in 1..12 and a day of the month between  *)
(* 1 and the length of that month in the returned year; the month scan     *)
(* leaves through its break within 12 executions of the loop, so that the  *)
(* month never reaches 13.                                                 *)
(***************************************************************************)
C17_DateInvariant ==
  (op = "leap_date" /\ pc # "call") =>
    /\ month \in 1 .. 12
    /\ iters = month - 1
    /\ day >= 0
    /\ pc = "done" =>
         /\ ret.month \in 1 .. 12
         /\ ret.day >= 1
         /\ ret.day <= leap_mday(ret.year, ret.month)

C17_Witness ==
  /\ op = "leap_date" /\ pc = "done"
  /\ arg = [year |-> 2024, day |-> 365]
  /\ iters = 11
  /\ ret = [year |-> 2024, month |-> 12, day |-> 31]

(***************************************************************************)
(* C18: when leap_off(year, day) is (Y, n), leap_date(year, day) is        *)
(* (Y, M, D) where M is the one month in 1..12 with                        *)
(* leap_yday(Y, M) <= n < leap_yday(Y, M) + leap_mday(Y, M), and           *)
(* D = n - leap_yday(Y, M) + 1; with the instances of leap_date_test.      *)
(***************************************************************************)
MonthsHolding(y, n) ==
  { m \in 1 .. 12 : leap_yday(y, m) <= n /\ n < leap_yday(y, m) + leap_mday(y, m) }

C18_DateOfOffset ==
  (op = "leap_date" /\ pc = "done") =>
    LET off == leap_off(arg.year, arg.day)
    IN  /\ ret.year = off.year
        /\ MonthsHolding(off.year, off.day) = {ret.month}
        /\ ret.day = off.day - leap_yday(off.year, ret.month) + 1
        /\ arg = [year |-> 1900, day |-> 364]
             => ret = [year |-> 1900, month |-> 12, day |-> 31]
        /\ arg = [year |-> 1, day |-> 0]
             => ret = [year |-> 1, month |-> 1, day |-> 1]
        /\ arg = [year |-> 1, day |-> 365]
             => ret = [year |-> 2, month |-> 1, day |-> 1]
        /\ arg = [year |-> 1902, day |-> 270]
             => ret = [year |-> 1902, month |-> 9, day |-> 28]

C18_Witness ==
  /\ op = "leap_date" /\ pc = "done"
  /\ arg = [year |-> 1902, day |-> 270]
  /\ ret = [year |-> 1902, month |-> 9, day |-> 28]

(***************************************************************************)
(* C19: with (q, r) = quo_mod(month - 1, 12), leap_from(year, month, day)  *)
(* equals leap_from(year + q, r + 1, day) and is a normalised offset;      *)
(* leap_from(2024, 0, 1) converts to the date (2023, 12, 1), and           *)
(* leap_from(y, 13, 1) is (y + 1, 0).                                      *)
(***************************************************************************)
C19_FromRollsMonth ==
  (op = "leap_from" /\ pc # "call") =>
    LET qm == quo_mod(arg.month - 1, 12)
    IN  /\ ret = leap_from(arg.year + qm.quo, qm.mod + 1, arg.day)
        /\ ret.day >= 0
        /\ ret.day < YearLength(ret.year)
        /\ (arg.month = 13 /\ arg.day = 1)
             => ret = [year |-> arg.year + 1, day |-> 0]
        /\ (pc = "done" /\ arg = [year |-> 2024, month |-> 0, day |-> 1])
             => date = [year |-> 2023, month |-> 12, day |-> 1]

C19_Witness ==
  /\ op = "leap_from" /\ pc = "done"
  /\ arg = [year |-> 2024, month |-> 0, day |-> 1]
  /\ ret = [year |-> 2023, day |-> 334]
  /\ date = [year |-> 2023, month |-> 12, day |-> 1]

(***************************************************************************)
(* C20: leap_absfrom(year, month, day + k) is                              *)
(* leap_absfrom(year, month, day) + k for every day and k, days at or      *)
(* below 0 and past the month's end included; day 0 is the last day of     *)
(* the previous month and a negative day lies further back.                *)
(***************************************************************************)
\* The month before month m (1..12) of year y.
PreviousMonth(y, m) ==
  IF m = 1 THEN [year |-> y - 1, month |-> 12]
           ELSE [year |-> y, month |-> m - 1]

\* The length of month m (1..12) of year y by the Gregorian rule.
CivilMonthLength(y, m) ==
  MonthLength(m) + (IF m = 2 /\ GregorianLeap(y) THEN 1 ELSE 0)

\* Date a is strictly before date b.
DateBefore(a, b) ==
  \/ a.year < b.year
  \/ a.year = b.year /\ a.month < b.month
  \/ a.year = b.year /\ a.month = b.month /\ a.day < b.day

C20_DayRolls ==
  (op = "leap_absfrom" /\ pc # "call") =>
    LET qm == quo_mod(arg.month - 1, 12)
        y == arg.year + qm.quo
        m == qm.mod + 1
        prev == PreviousMonth(y, m)
        last == [year |-> prev.year, month |-> prev.month,
                 day |-> CivilMonthLength(prev.year, prev.month)]
        d == arg.day + arg.k
    IN  /\ ret.value = absday + arg.k
        /\ (pc = "done" /\ d \in 1 .. CivilMonthLength(y, m))
             => date = [year |-> y, month |-> m, day |-> d]
        /\ (pc = "done" /\ d = 0) => date = last
        /\ (pc = "done" /\ d < 0) => DateBefore(date, last)

C20_Witness ==
  /\ op = "leap_absfrom" /\ pc = "done"
  /\ arg = [year |-> 2024, month |-> 3, day |-> 3, k |-> -3]
  /\ ret.value = absday - 3
  /\ date = [year |-> 2024, month |-> 2, day |-> 29]

C22_AnchoredAtUnixEpoch ==
  /\ (op = "round_trip" /\ arg.from = "date" /\ pc # "call_absfrom"
        /\ arg.date = [year |-> 1970, month |-> 1, day |-> 1])
       => absday = 0
  /\ (op = "round_trip" /\ arg.from = "abs" /\ pc # "call_absdate"
        /\ arg.abs = 0)
       => date = [year |-> 1970, month |-> 1, day |-> 1]

(***************************************************************************)
(* C23: when the first floor quotient of day by the length of year is +1   *)
(* or -1, leap_off executes its loop body at most 2 times; and 2 are       *)
(* needed from a leap year to day 365 of the 365-day year after it.        *)
(***************************************************************************)
C23_SingleYearJump ==
  (op = "leap_off" /\ FloorDiv(arg.day, YearLength(arg.year)) \in {-1, 1}) =>
    /\ iters <= 2
    /\ (pc = "loop" /\ iters = 2) => ~leap_off_continues(day, days)

C23_Witness ==
  /\ op = "leap_off" /\ pc = "done"
  /\ arg = [year |-> 2024, day |-> 731]
  /\ FloorDiv(arg.day, YearLength(arg.year)) = 1
  /\ iters = 2
  /\ ret.value = [year |-> 2026, day |-> 0]

(***************************************************************************)
(* C24: the loop of leap_off always ends: every execution of its body      *)
(* strictly decreases |day|, so a normalised pair is returned in the end   *)
(* and the loop does not go back and forth between two years.              *)
(***************************************************************************)
C24_EveryIterationDecreases ==
  [][(op = "leap_off" /\ pc = "loop" /\ iters' = iters + 1)
       => Abs(day') < Abs(day)]_vars

\* C24 as amended: every execution of the body either brings day into the
\* range of the new year or strictly decreases |day|, and leap_off returns.
C24_Terminates ==
  /\ [][(op = "leap_off" /\ pc = "loop" /\ iters' = iters + 1
           /\ leap_off_continues(day', days'))
          => Abs(day') < Abs(day)]_vars
  /\ <>(op = "leap_off" /\ pc = "done")

\* Two executions, the first of which leaves day out of range and smaller.
C24_Witness ==
  /\ op = "leap_off" /\ pc = "done"
  /\ arg = [year |-> 2025, day |-> -366]
  /\ iters = 2
  /\ ret.value = [year |-> 2024, day |-> 0]

(***************************************************************************)
(* C25: the year leap_off jumps to in the first execution of its body,     *)
(* year + floor(day / days), is at most 1 from the year it returns.        *)
(***************************************************************************)
FirstCandidate == arg.year + FloorDiv(arg.day, YearLength(arg.year))

C25_FirstJumpWithinOneYear ==
  (op = "leap_off" /\ iters >= 1) => Abs(year - FirstCandidate) <= 1

\* C25 as amended: so for an offset of at most 176411 days either way.
C25_FirstJumpWithinOneYearBounded ==
  (op = "leap_off" /\ iters >= 1 /\ Abs(arg.day) <= 176411) =>
    Abs(year - FirstCandidate) <= 1

\* The largest offset before year 104 for which the bound holds: the first
\* jump lands in year -378 and year -379 is returned.
C25_Witness ==
  /\ op = "leap_off" /\ pc = "done"
  /\ arg = [year |-> 104, day |-> -176411]
  /\ FirstCandidate = -378
  /\ ret.value.year = -379

(***************************************************************************)
(* C26: no calendar function passes quo_mod a divisor of zero: every       *)
(* divisor is one of 4, 100, 400, 12, 365, 366, so that quo_mod is never   *)
(* called with operands for which x % y is undefined.  The literals apart, *)
(* the one divisor is days in the loop of leap_off.                        *)
(***************************************************************************)
C26_DivisorNeverZero ==
  /\ 0 \notin LiteralDivisors
  /\ (op = "leap_off" /\ pc = "loop") =>
       /\ days \in {365, 366}
       /\ LiteralDivisors \cup {days} \subseteq {4, 100, 400, 12, 365, 366}
       /\ ~quo_mod_undefined(day, days)

\* The second call of quo_mod in leap_off(2024, 731) is about to be made.
C26_Witness ==
  /\ op = "leap_off" /\ pc = "loop"
  /\ arg = [year |-> 2024, day |-> 731]
  /\ iters = 1
  /\ leap_off_continues(day, days)
  /\ days = 365

(***************************************************************************)
(* C27: with 32-bit int, for every absolute day within 10,000,000 days of  *)
(* day 0 and every (year, day offset) pair with such an absolute day, no   *)
(* intermediate value of leap_day, leap_off, leap_date, leap_from or       *)
(* leap_absfrom leaves the range of int.                                   *)
(***************************************************************************)
\* The absolute day of (y, d), summed in an order that stays small.
ExactAbs(y, d) == (y * 365 + d) + FloorDiv(y - 1, 4) - FloorDiv(y - 1, 100)
                    + FloorDiv(y - 1, 400) + 1

ArgAbs ==
  CASE op = "leap_day" -> ExactAbs(arg.year, 0)
    [] op \in {"leap_off", "leap_date"} -> ExactAbs(arg.year, arg.day)
    [] op = "leap_absfrom" -> ExactAbs(arg.year, 0)

C27_NoOverflow ==
  (pc \in {"done", "undefined"} /\ Abs(ArgAbs) <= 10000000) => pc = "done"

\* C27 as amended: so when the year is at most 5,000,000 either way.
C27_NoOverflowBoundedYear ==
  (pc \in {"done", "undefined"} /\ Abs(ArgAbs) <= 10000000
     /\ Abs(arg.year) <= 5000000) =>
    /\ pc = "done"
    /\ ret.status = "returned"

\* The last of the 10,000,000 days, reached from year 5,000,000.
C27_Witness ==
  /\ op = "leap_off" /\ pc = "done"
  /\ arg.year = 5000000
  /\ ExactAbs(arg.year, arg.day) = 10000000
  /\ ret.value = [year |-> 27379, day |-> 25]

(***************************************************************************)
(* C28: for every x and every nonzero y of the machine word, none of       *)
(* x % y, mod + y and x - mod overflows, and the pair returned satisfies   *)
(* x == y * quo + mod.                                                     *)
(***************************************************************************)
C28_QuoModTotal ==
  (op = "quo_mod" /\ pc \in {"done", "undefined"} /\ arg.y # 0) =>
    /\ pc = "done"
    /\ ret.status = "returned"
    /\ arg.x = arg.y * ret.value.quo + ret.value.mod

(***************************************************************************)
(* C29: under any interleaving of concurrent calls, each call returns what *)
(* it returns to a single caller, and the tables MDAY and YDAY are never   *)
(* changed.                                                                *)
(***************************************************************************)
C29_CallsDoNotInterfere ==
  op = "threads" =>
    /\ threads.tables = StaticTables
    /\ \A t \in Threads :
         threads.call[t].pc = "done" =>
           threads.call[t].ret = CallValue(threads.call[t])

\* Two scans of the months have run at once, in a leap year and in a common
\* year, and each has returned its own date.
C29_Witness ==
  /\ op = "threads"
  /\ threads.call[1].op = "leap_date" /\ threads.call[1].a = 2024
  /\ threads.call[2].op = "leap_date" /\ threads.call[2].a = 2023
  /\ threads.call[1].pc = "done" /\ threads.call[2].pc = "done"
  /\ threads.call[1].ret = [year |-> 2024, month |-> 2, day |-> 29]
  /\ threads.call[2].ret = [year |-> 2023, month |-> 3, day |-> 1]

====
